---- MODULE Spec2Model ----
(***************************************************************************)
(* Model of the indexing engine of obsrest (src/app/search_manager.py) and *)
(* of the two endpoints of src/app/main.py that call into it.              *)
(*                                                                         *)
(* A path is a sequence of components; a component keeps what pathlib      *)
(* looks at: whether the name starts with a dot, its stem and its suffix.  *)
(* File bytes are abstracted to a format and a sequence of word tokens.    *)
(* The Whoosh index is a bag of stored documents: add_document appends a   *)
(* document, delete_by_term removes every document with the given key.     *)
(***************************************************************************)
EXTENDS Integers, Sequences, FiniteSets, Bags, TLC

VARIABLES fs, clock, events, pending_changes, index, state_file,
          running, faults, last, lock, writelock, pc, frame

vars == <<fs, clock, events, pending_changes, index, state_file,
          running, faults, last, lock, writelock, pc, frame>>

\* the state of the threads: the two locks, where each thread is and its locals
tvars == <<lock, writelock, pc, frame>>

(***************************************************************************)
(* Bounds of the model.                                                    *)
(***************************************************************************)
\* number of file writes the environment performs (each takes a new mtime)
MaxClock == 2
\* number of distinct vault paths the run touches
MaxFiles == 2
\* number of watcher notifications in flight
MaxEvents == 2
\* number of injected environment failures (index unavailable, load, save)
MaxFaults == 1
\* largest limit handed to search
MaxLimit == 2
\* largest number of copies of one document in an index handed to search
MaxCopies == 2

(***************************************************************************)
(* Paths.                                                                  *)
(***************************************************************************)
Comp(dot, stem, suffix) == [dot |-> dot, stem |-> stem, suffix |-> suffix]

Root == Comp(FALSE, "/", "")

\* VAULT_PATH default "/data/vault"
VaultPath == <<Root, Comp(FALSE, "data", ""), Comp(FALSE, "vault", "")>>

NotesA == <<Comp(FALSE, "notes", ""), Comp(FALSE, "a", ".md")>>
PlainB == <<Comp(FALSE, "b", ".TXT")>>
NotesC == <<Comp(FALSE, "notes", ""), Comp(FALSE, "c", ".pdf")>>
DotFile == <<Comp(TRUE, "secret", ".md")>>
DotDir == <<Comp(TRUE, "obsidian", ""), Comp(FALSE, "d", ".md")>>
Image == <<Comp(FALSE, "e", ".png")>>

\* the relative paths of the files the environment creates in the vault
AllPaths == {NotesA, PlainB, NotesC, DotFile, DotDir, Image}

\* Path.name
Name(path) == path[Len(path)]

\* Path.name.startswith('.')
NameStartsWithDot(path) == Name(path).dot

\* str.lower() on the suffixes that occur
Lower(s) ==
    CASE s = ".MD" -> ".md"
      [] s = ".TXT" -> ".txt"
      [] s = ".PDF" -> ".pdf"
      [] s = ".PNG" -> ".png"
      [] OTHER -> s

\* Path.suffix.lower()
SuffixLower(path) == Lower(Name(path).suffix)

\* Path.is_absolute()
IsAbsolute(path) == Len(path) > 0 /\ path[1] = Root

\* whether Path.relative_to(base) succeeds (it raises ValueError otherwise)
IsRelativeTo(path, base) ==
    /\ Len(path) >= Len(base)
    /\ SubSeq(path, 1, Len(base)) = base

\* Path.relative_to(base)
RelativeTo(path, base) == SubSeq(path, Len(base) + 1, Len(path))

\* some component above the name starts with a dot
UnderDotDirectory(path) == \E i \in 1..(Len(path) - 1) : path[i].dot

\* the directory holding a file
Parent(path) == SubSeq(path, 1, Len(path) - 1)

(***************************************************************************)
(* File contents.                                                          *)
(***************************************************************************)
Data(format, text, pages) == [format |-> format, text |-> text, pages |-> pages]

\* UTF-8 text files
TextAlpha == Data("utf8", <<"alpha", "note">>, <<>>)
TextBeta == Data("utf8", <<"beta", "note", "note">>, <<>>)
\* a PDF document (binary: its bytes are not valid UTF-8) of two pages
PdfGamma == Data("pdf", <<>>, <<<<"gamma">>, <<"note">>>>)
\* bytes that are neither valid UTF-8 nor a PDF document
Garbage == Data("binary", <<>>, <<>>)

\* the contents the environment writes to a path: text, or bytes that do not
\* decode, to the text files; a PDF document, or a corrupt one, to the .pdf
DataFor(rel) ==
    CASE rel \in {NotesA, PlainB} -> {TextAlpha, TextBeta, Garbage}
      [] rel = NotesC -> {PdfGamma, Garbage}
      [] OTHER -> {TextAlpha}

RECURSIVE PagesLen(_)
PagesLen(pages) ==
    IF pages = <<>> THEN 0 ELSE Len(Head(pages)) + PagesLen(Tail(pages))

\* stat().st_size
Size(data) ==
    CASE data.format = "utf8" -> Len(data.text)
      [] data.format = "pdf" -> 1 + PagesLen(data.pages)
      [] OTHER -> 1

File(mtime, data) == [mtime |-> mtime, data |-> data]

\* file_path.exists() and file_path.is_file(), for a path as the engine holds it
Exists(files, file_path) ==
    /\ IsRelativeTo(file_path, VaultPath)
    /\ RelativeTo(file_path, VaultPath) \in DOMAIN files

FileAt(files, file_path) == files[RelativeTo(file_path, VaultPath)]

\* whether file_path.read_text(encoding='utf-8') succeeds
ReadTextOk(data) == data.format = "utf8"

\* file_path.read_text(encoding='utf-8')
ReadText(data) == data.text

(***************************************************************************)
(* Fingerprint store, extraction and the index-write path.                 *)
(***************************************************************************)
\* load_index_state() when the state file is missing or unreadable: {}
EmptyState == <<>>

\* get_file_hash() when stat() fails: ""
NoHash == <<>>

\* get_file_hash(): f"{stat.st_mtime}_{stat.st_size}"
get_file_hash(files, file_path) ==
    IF Exists(files, file_path)
    THEN <<FileAt(files, file_path).mtime, Size(FileAt(files, file_path).data)>>
    ELSE NoHash

RECURSIVE PagesText(_)
PagesText(pages) ==
    IF pages = <<>> THEN <<>>
    ELSE Head(pages) \o <<"\n">> \o PagesText(Tail(pages))

\* _extract_pdf_text(): each page's text followed by a newline, "" on failure
extract_pdf_text(data) ==
    IF data.format = "pdf" THEN PagesText(data.pages) ELSE <<>>

\* the content _index_file() hands to the index: the extractor's text for a
\* .pdf, the decoded text otherwise
index_file_content(file_path, data) ==
    IF SuffixLower(file_path) = ".pdf" THEN extract_pdf_text(data)
    ELSE ReadText(data)

\* a stored document of the schema (path, content, modified)
Document(path, content, modified) ==
    [path |-> path, content |-> content, modified |-> modified]

\* the points at which the environment can fail an operation
FaultPoints ==
    {"cc_load", "rdf_index", "rdf_load", "rdf_save",
     "isf_index", "isf_load", "isf_save", "search"}

\* load_index_state(): the mapping on disk, {} when loading fails
load_index_state(disk, failed) == IF failed THEN EmptyState ELSE disk

\* save_index_state(): writes the mapping; a failure is logged and swallowed
save_index_state(disk, state, failed) == IF failed THEN disk ELSE state

\* the paths of a batch that the loop of index_specific_files() writes:
\* the file exists, is a regular file and decodes as UTF-8
Indexable(files, file_paths) ==
    {fp \in file_paths : Exists(files, fp) /\ ReadTextOk(FileAt(files, fp).data)}

\* the document the loop of index_specific_files() writes for a path
WrittenDocument(files, fp) ==
    Document(RelativeTo(fp, VaultPath),
             ReadText(FileAt(files, fp).data),
             FileAt(files, fp).mtime)

\* writer.add_document(): appends, whatever documents the index holds
add_document(idx, doc) == idx (+) SetToBag({doc})

RECURSIVE AddAll(_, _)
AddAll(idx, docs) ==
    IF docs = {} THEN idx
    ELSE LET d == CHOOSE x \in docs : TRUE
         IN AddAll(add_document(idx, d), docs \ {d})

\* state[rel_path] = get_file_hash(file_path) for every written path
UpdatedState(files, state, written) ==
    LET rels == {RelativeTo(fp, VaultPath) : fp \in written}
    IN [rel \in (DOMAIN state) \cup rels |->
           IF rel \in rels THEN get_file_hash(files, VaultPath \o rel)
           ELSE state[rel]]

\* index_specific_files(file_paths); F is the set of failures that occur
index_specific_files(file_paths, files, idx, disk, F) ==
    LET state == load_index_state(disk, "isf_load" \in F)
        written == Indexable(files, file_paths)
    IN IF "isf_index" \in F
       THEN [raised |-> TRUE, index |-> idx, state_file |-> disk, added |-> {}]
       ELSE [raised |-> FALSE,
             index |-> AddAll(idx, {WrittenDocument(files, fp) : fp \in written}),
             state_file |-> save_index_state(disk,
                               UpdatedState(files, state, written),
                               "isf_save" \in F),
             added |-> {RelativeTo(fp, VaultPath) : fp \in written}]

\* writer.delete_by_term('path', path): removes every document with the key
delete_by_term(idx, paths) ==
    [d \in {x \in DOMAIN idx : x.path \notin paths} |-> idx[d]]

\* remove_deleted_files(paths): every exception is logged and swallowed
remove_deleted_files(paths, idx, disk, F) ==
    LET state == load_index_state(disk, "rdf_load" \in F)
        popped == [rel \in (DOMAIN state) \ paths |-> state[rel]]
    IN IF "rdf_index" \in F
       THEN [index |-> idx, state_file |-> disk]
       ELSE [index |-> delete_by_term(idx, paths),
             state_file |-> save_index_state(disk, popped, "rdf_save" \in F)]

\* the whitelist test of check_consistency() and _handle_change()
Eligible(path) ==
    /\ SuffixLower(path) \in {".md", ".txt", ".pdf"}
    /\ ~NameStartsWithDot(path)

\* a diff that only looks for paths the store does not know
FilesToUpdateNewOnly(files, current_state) ==
    {VaultPath \o rel : rel \in
        {r \in DOMAIN files : Eligible(r) /\ r \notin DOMAIN current_state}}

\* files_to_update of check_consistency()
FilesToUpdate(files, current_state) ==
    {VaultPath \o rel : rel \in
        {r \in DOMAIN files :
            /\ Eligible(r)
            /\ \/ r \notin DOMAIN current_state
               \/ current_state[r] # get_file_hash(files, VaultPath \o r)}}

\* deleted_paths of check_consistency()
DeletedPaths(files, current_state) == (DOMAIN current_state) \ (DOMAIN files)

\* check_consistency()
check_consistency(files, idx, disk, F) ==
    LET current_state == load_index_state(disk, "cc_load" \in F)
        files_to_update == FilesToUpdate(files, current_state)
        deleted_paths == DeletedPaths(files, current_state)
        removed == IF deleted_paths # {}
                   THEN remove_deleted_files(deleted_paths, idx, disk, F)
                   ELSE [index |-> idx, state_file |-> disk]
        indexed == IF files_to_update # {}
                   THEN index_specific_files(files_to_update, files,
                                             removed.index, removed.state_file, F)
                   ELSE [raised |-> FALSE, index |-> removed.index,
                         state_file |-> removed.state_file, added |-> {}]
    IN [raised |-> indexed.raised,
        index |-> indexed.index,
        state_file |-> indexed.state_file,
        added |-> indexed.added,
        files_to_update |-> files_to_update,
        deleted_paths |-> deleted_paths]

(***************************************************************************)
(* Query engine.                                                           *)
(***************************************************************************)
\* the words a query can be
Tokens == {"alpha", "beta", "gamma", "note"}

\* limit: int = 10
DefaultLimit == 10

\* the relevance of a document for a one-word query: the number of times the
\* word occurs in the content field (0: the document does not match)
Score(doc, query) ==
    Cardinality({i \in DOMAIN doc.content : doc.content[i] = query})

\* the documents of the index that match the query, as a bag
Matching(idx, query) ==
    [d \in {x \in DOMAIN idx : Score(x, query) > 0} |-> idx[d]]

\* one copy of a document taken out of a bag
Without(bag, d) ==
    [x \in {y \in DOMAIN bag : y # d \/ bag[y] > 1} |->
        IF x = d THEN bag[x] - 1 ELSE bag[x]]

\* the orders in which the index can rank a bag of hits: non-increasing
\* score, ties in any order
RECURSIVE Rankings(_, _)
Rankings(bag, query) ==
    IF DOMAIN bag = {} THEN {<<>>}
    ELSE LET best == {d \in DOMAIN bag :
                        \A e \in DOMAIN bag : Score(d, query) >= Score(e, query)}
         IN UNION {{<<d>> \o s : s \in Rankings(Without(bag, d), query)} : d \in best}

Min(a, b) == IF a < b THEN a ELSE b

\* searcher.search(query, limit=limit): the first `limit` hits of a ranking
searcher_search(ranking, limit) == SubSeq(ranking, 1, Min(limit, Len(ranking)))

\* hit.highlights("content"): the matched words of the content
Highlights(content, query) == SelectSeq(content, LAMBDA w : w = query)

\* SearchResult(path=..., content_preview=..., score=..., modified=...)
SearchResult(hit, query) ==
    [path |-> hit.path,
     content_preview |->
        IF Highlights(hit.content, query) # <<>>
        THEN Highlights(hit.content, query)
        ELSE SubSeq(hit.content, 1, Min(200, Len(hit.content))) \o <<"...">>,
     score |-> Score(hit, query),
     modified |-> hit.modified]

\* a loop that puts each new result in front of the list
RECURSIVE PrependResults(_, _, _)
PrependResults(results, hits, query) ==
    IF hits = <<>> THEN results
    ELSE PrependResults(<<SearchResult(Head(hits), query)>> \o results,
                        Tail(hits), query)

\* for hit in search_results: results.append(SearchResult(...))
RECURSIVE AppendResults(_, _, _)
AppendResults(results, hits, query) ==
    IF hits = <<>> THEN results
    ELSE AppendResults(Append(results, SearchResult(Head(hits), query)),
                       Tail(hits), query)

\* what search() hands back: a raise carries no list
Raise == [raised |-> TRUE, results |-> <<>>]
Return(results) == [raised |-> FALSE, results |-> results]

\* search(query, limit) over a ranking of the matching documents. failed:
\* an exception occurs, after fail_at hits were converted (0: in open_dir,
\* the parser or the searcher). searcher.search raises ValueError for limit < 1.
search(ranking, query, limit, failed, fail_at) ==
    IF limit < 1 THEN Raise
    ELSE IF failed THEN Raise
    ELSE Return(AppendResults(<<>>, searcher_search(ranking, limit), query))

(***************************************************************************)
(* State machine.                                                          *)
(*   fs               the vault: relative path -> file, for existing files *)
(*   clock            the filesystem clock that stamps mtimes              *)
(*   events           watcher notifications not yet delivered              *)
(*   pending_changes  VaultChangeHandler.pending_changes                   *)
(*   index            the documents of the Whoosh index                    *)
(*   state_file       the mapping stored in index_state.json               *)
(*   running          VaultChangeHandler._running and the observer         *)
(*   faults           number of environment failures so far                *)
(*   last             the operation that completed last and its outcome    *)
(*   lock             the holder of VaultChangeHandler._lock               *)
(*   writelock        the holder of the index's write lock (idx.writer())  *)
(*   pc               the statement each thread is at                      *)
(*   frame            the local variables of each thread's call            *)
(***************************************************************************)
Event(src_path, is_directory, event_type) ==
    [src_path |-> src_path, is_directory |-> is_directory,
     event_type |-> event_type]

\* the outcome record of an operation, before the operation fills it in
Outcome(op) ==
    [op |-> op, batch |-> {}, raised |-> FALSE, added |-> {},
     files_to_update |-> {}, deleted_paths |-> {}, failed |-> {},
     query |-> "", limit |-> 0, results |-> <<>>, response |-> ""]

\* the relative paths the run has touched and the system still knows
KnownPaths ==
    (DOMAIN fs) \cup (DOMAIN state_file)
    \cup {d.path : d \in DOMAIN index}
    \cup {RelativeTo(fp, VaultPath) : fp \in pending_changes}
    \cup {RelativeTo(e.src_path, VaultPath) :
            e \in {x \in events : ~x.is_directory}}

\* the failures the environment may still inject among the given points
FaultSets(points) ==
    {F \in SUBSET points : Cardinality(F) <= MaxFaults - faults}

\* the debounce thread, the observer thread that runs the handler, a thread
\* that calls check_consistency() (startup or a reindex request) and the
\* thread that calls shutdown()
Threads == {"loop", "handler", "caller", "stop"}

\* the locals of a call before it assigns them
Frame0 ==
    [file_paths |-> {}, todo |-> {}, state |-> EmptyState, staged |-> {},
     failed |-> {}, saves |-> 0, deleted_paths |-> {}, path |-> <<>>,
     prev |-> "none", file_path |-> <<>>, content |-> <<>>]

\* the observer is started by setup_file_watcher() and stopped by shutdown()
Observing == pc["stop"] # "done"

Init ==
    /\ lock = "free"
    /\ writelock = "free"
    /\ pc = [t \in Threads |-> IF t = "loop" THEN "while" ELSE "idle"]
    /\ frame = [t \in Threads |-> Frame0]
    /\ fs = <<>>
    /\ clock = 0
    /\ events = {}
    /\ pending_changes = {}
    /\ index = EmptyBag
    /\ state_file = EmptyState
    /\ running = TRUE
    /\ faults = 0
    /\ last = Outcome("init")

\* the notifications the observer queues for a write of a file
WriteEvents(rel) ==
    IF rel \in DOMAIN fs
    THEN {Event(VaultPath \o rel, FALSE, "modified")}
    ELSE {Event(VaultPath \o rel, FALSE, "created"),
          Event(VaultPath \o Parent(rel), TRUE, "modified")}

\* the environment creates or overwrites a file of the vault; the observer,
\* which watches the vault by its absolute path, queues the notifications
\* (the write waits while MaxEvents notifications are undelivered)
Write(rel, data) ==
    /\ clock < MaxClock
    /\ Cardinality(KnownPaths \cup {rel}) <= MaxFiles
    /\ LET new == IF Observing THEN WriteEvents(rel) ELSE {}
       IN /\ Cardinality(events \cup new) <= MaxEvents
          /\ events' = events \cup new
    /\ clock' = clock + 1
    /\ fs' = [r \in (DOMAIN fs) \cup {rel} |->
                IF r = rel THEN File(clock + 1, data) ELSE fs[r]]

\* the environment deletes a file of the vault
Delete(rel) ==
    /\ rel \in DOMAIN fs
    /\ LET new == IF Observing THEN {Event(VaultPath \o rel, FALSE, "deleted")}
                  ELSE {}
       IN /\ Cardinality(events \cup new) <= MaxEvents
          /\ events' = events \cup new
    /\ fs' = [r \in (DOMAIN fs) \ {rel} |-> fs[r]]
    /\ UNCHANGED clock

\* a write between two operations of the program
FsWrite(rel, data) ==
    /\ Write(rel, data)
    /\ last' = Outcome("write")
    /\ UNCHANGED <<pending_changes, index, state_file, running, faults>>
    /\ UNCHANGED tvars

\* a deletion between two operations of the program
FsDelete(rel) ==
    /\ Delete(rel)
    /\ last' = Outcome("delete")
    /\ UNCHANGED <<pending_changes, index, state_file, running, faults>>
    /\ UNCHANGED tvars

\* the working directory of the process, which Path.absolute() prepends
Cwd == <<Root, Comp(FALSE, "app", "")>>

\* path.absolute() when the path is not absolute
Absolute(path) == IF IsAbsolute(path) THEN path ELSE Cwd \o path

\* _handle_change(file_path): the pending set after the call
handle_change(pending, file_path) ==
    IF Eligible(file_path)
    THEN pending \cup {Absolute(file_path)}
    ELSE pending

\* on_created(event) and on_modified(event): the pending set after the call
on_change(pending, event) ==
    IF event.is_directory THEN pending
    ELSE handle_change(pending, event.src_path)

\* the observer delivers a created notification
on_created(event) ==
    /\ running
    /\ event \in events /\ event.event_type = "created"
    /\ events' = events \ {event}
    /\ pending_changes' = on_change(pending_changes, event)
    /\ last' = Outcome("on_created")
    /\ UNCHANGED <<fs, clock, index, state_file, running, faults>>
    /\ UNCHANGED tvars

\* the observer delivers a modified notification
on_modified(event) ==
    /\ running
    /\ event \in events /\ event.event_type = "modified"
    /\ events' = events \ {event}
    /\ pending_changes' = on_change(pending_changes, event)
    /\ last' = Outcome("on_modified")
    /\ UNCHANGED <<fs, clock, index, state_file, running, faults>>
    /\ UNCHANGED tvars

\* the observer delivers a deleted notification: the handler does not
\* override on_deleted, so nothing is queued
on_deleted(event) ==
    /\ running
    /\ event \in events /\ event.event_type = "deleted"
    /\ events' = events \ {event}
    /\ last' = Outcome("on_deleted")
    /\ UNCHANGED <<fs, clock, pending_changes, index, state_file, running, faults>>
    /\ UNCHANGED tvars

\* one iteration of _process_loop() that finds pending changes
process_loop(F) ==
    /\ running
    /\ pending_changes # {}
    /\ LET r == index_specific_files(pending_changes, fs, index, state_file, F)
       IN /\ index' = r.index
          /\ state_file' = r.state_file
          /\ pending_changes' = IF r.raised THEN pending_changes ELSE {}
          /\ last' = [Outcome("tick") EXCEPT !.batch = pending_changes,
                                             !.raised = r.raised,
                                             !.added = r.added,
                                             !.failed = F]
    /\ faults' = faults + Cardinality(F)
    /\ UNCHANGED <<fs, clock, events, running>>
    /\ UNCHANGED tvars

\* POST /api/search/reindex: check_consistency(), 500 when it raises
reindex(F) ==
    /\ LET r == check_consistency(fs, index, state_file, F)
       IN /\ index' = r.index
          /\ state_file' = r.state_file
          /\ last' = [Outcome("reindex") EXCEPT
                         !.raised = r.raised,
                         !.added = r.added,
                         !.files_to_update = r.files_to_update,
                         !.deleted_paths = r.deleted_paths,
                         !.failed = F,
                         !.response = IF r.raised THEN "500" ELSE "success"]
    /\ faults' = faults + Cardinality(F)
    /\ UNCHANGED <<fs, clock, events, pending_changes, running>>
    /\ UNCHANGED tvars

\* GET /api/search: search(q, limit), 500 when it raises
api_search(query, limit, F, fail_at) ==
    /\ \E ranking \in Rankings(Matching(index, query), query) :
         /\ fail_at <= Len(searcher_search(ranking, limit))
         /\ LET r == search(ranking, query, limit, "search" \in F, fail_at)
            IN last' = [Outcome("search") EXCEPT
                           !.query = query, !.limit = limit,
                           !.raised = r.raised, !.results = r.results,
                           !.failed = F,
                           !.response = IF r.raised THEN "500" ELSE "200"]
    /\ faults' = faults + Cardinality(F)
    /\ UNCHANGED <<fs, clock, events, pending_changes, index, state_file, running>>
    /\ UNCHANGED tvars

\* SearchManager.shutdown(): the loop and the observer stop
shutdown ==
    /\ running
    /\ running' = FALSE
    /\ events' = {}
    /\ last' = Outcome("shutdown")
    /\ UNCHANGED <<fs, clock, pending_changes, index, state_file, faults>>
    /\ pc' = [pc EXCEPT !["loop"] = "done", !["stop"] = "done"]
    /\ UNCHANGED <<lock, writelock, frame>>

Next ==
    \/ \E rel \in AllPaths : \E data \in DataFor(rel) : FsWrite(rel, data)
    \/ \E rel \in AllPaths : FsDelete(rel)
    \/ \E event \in events : on_created(event)
    \/ \E event \in events : on_modified(event)
    \/ \E event \in events : on_deleted(event)
    \/ \E F \in FaultSets({"isf_index", "isf_load", "isf_save"}) : process_loop(F)
    \/ \E F \in FaultSets(FaultPoints \ {"search"}) : reindex(F)
    \/ shutdown

Spec == Init /\ [][Next]_vars

(***************************************************************************)
(* The same program statement by statement: the debounce thread, the       *)
(* handler on the observer thread, a thread calling check_consistency()    *)
(* and the thread calling shutdown() interleave.  A step between two       *)
(* labels is one statement (or one block under a lock the others need).    *)
(***************************************************************************)
\* the vault paths and the contents the environment uses in these runs
ThreadPaths == {NotesA, PlainB}

ThreadData(rel) == IF rel = NotesA THEN {TextAlpha} ELSE {TextBeta, Garbage}

\* a write and a deletion between two statements of the threads
EnvWrite(rel, data) ==
    /\ Write(rel, data)
    /\ UNCHANGED <<pending_changes, index, state_file, running, faults, last>>
    /\ UNCHANGED tvars

EnvDelete(rel) ==
    /\ Delete(rel)
    /\ UNCHANGED <<pending_changes, index, state_file, running, faults, last>>
    /\ UNCHANGED tvars

\* thread t moves to a label
Goto(t, label) == pc' = [pc EXCEPT ![t] = label]

\* thread t assigns its locals
Assign(t, locals) == frame' = [frame EXCEPT ![t] = locals]

\* the statements of index_specific_files()
IsfLabels == {"isf_open", "isf_writer", "isf_file", "isf_save"}

\* `with self._lock:` can be entered
acquire_unlocked(holder) == TRUE

acquire(holder) == holder = "free"

\* `while self._running:` of _process_loop()
while_true(flag) == TRUE

while_running(flag) == flag

\* _process_loop(): the loop test; the thread ends when the flag is cleared
loop_while ==
    /\ pc["loop"] = "while"
    /\ Goto("loop", IF while_running(running) THEN "with" ELSE "done")
    /\ UNCHANGED <<fs, clock, events, pending_changes, index, state_file,
                   running, faults, last, lock, writelock, frame>>

\* _process_loop(): `with self._lock: if self.pending_changes:` and the call
\* index_specific_files(self.pending_changes); with nothing pending the lock
\* is released at once
loop_with ==
    /\ pc["loop"] = "with"
    /\ acquire(lock)
    /\ IF pending_changes = {}
       THEN /\ Goto("loop", "sleep")
            /\ UNCHANGED <<lock, frame>>
       ELSE /\ lock' = "loop"
            /\ Goto("loop", "isf_open")
            /\ Assign("loop", [Frame0 EXCEPT !.file_paths = pending_changes,
                                             !.prev = frame["loop"].prev])
    /\ UNCHANGED <<fs, clock, events, pending_changes, index, state_file,
                   running, faults, last, writelock>>

\* index_specific_files(): open_dir() and load_index_state(); open_dir may
\* raise
isf_open(t, F) ==
    /\ pc[t] = "isf_open"
    /\ faults' = faults + Cardinality(F)
    /\ IF "isf_index" \in F
       THEN /\ Goto(t, "raised")
            /\ UNCHANGED frame
       ELSE /\ Goto(t, "isf_writer")
            /\ Assign(t, [frame[t] EXCEPT
                            !.state = load_index_state(state_file, FALSE)])
    /\ UNCHANGED <<fs, clock, events, pending_changes, index, state_file,
                   running, last, lock, writelock>>

\* index_specific_files(): `with idx.writer() as writer:`; the writer raises
\* LockError when another writer is open
isf_writer(t) ==
    /\ pc[t] = "isf_writer"
    /\ IF writelock = "free"
       THEN /\ writelock' = t
            /\ Goto(t, "isf_file")
            /\ Assign(t, [frame[t] EXCEPT !.todo = frame[t].file_paths])
       ELSE /\ Goto(t, "raised")
            /\ UNCHANGED <<writelock, frame>>
    /\ UNCHANGED <<fs, clock, events, pending_changes, index, state_file,
                   running, faults, last, lock>>

\* a loop body in which a path's failure ends the whole batch
isf_file_abort(t, fp) ==
    /\ pc[t] = "isf_file"
    /\ fp \in frame[t].todo
    /\ IF Exists(fs, fp) /\ ~ReadTextOk(FileAt(fs, fp).data)
       THEN /\ Goto(t, "raised")
            /\ writelock' = "free"
            /\ UNCHANGED frame
       ELSE /\ UNCHANGED <<pc, writelock>>
            /\ IF ~Exists(fs, fp)
               THEN Assign(t, [frame[t] EXCEPT !.todo = @ \ {fp}])
               ELSE Assign(t, [frame[t] EXCEPT
                      !.todo = @ \ {fp},
                      !.staged = @ \cup {WrittenDocument(fs, fp)},
                      !.state = UpdatedState(fs, @, {fp})])
    /\ UNCHANGED <<fs, clock, events, pending_changes, index, state_file,
                   running, faults, last, lock>>

\* index_specific_files(): the loop body for one path: a missing file is
\* skipped, a file that cannot be read is logged, any other is added to the
\* writer and to the state
isf_file(t, fp) ==
    /\ pc[t] = "isf_file"
    /\ fp \in frame[t].todo
    /\ IF ~Exists(fs, fp)
       THEN Assign(t, [frame[t] EXCEPT !.todo = @ \ {fp}])
       ELSE IF ~ReadTextOk(FileAt(fs, fp).data)
       THEN Assign(t, [frame[t] EXCEPT !.todo = @ \ {fp},
                                       !.failed = @ \cup {fp}])
       ELSE Assign(t, [frame[t] EXCEPT
                         !.todo = @ \ {fp},
                         !.staged = @ \cup {WrittenDocument(fs, fp)},
                         !.state = UpdatedState(fs, @, {fp})])
    /\ UNCHANGED <<fs, clock, events, pending_changes, index, state_file,
                   running, faults, last, lock, writelock, pc>>

\* index_specific_files(): the end of the `with` block commits the writer
isf_commit(t) ==
    /\ pc[t] = "isf_file"
    /\ frame[t].todo = {}
    /\ index' = AddAll(index, frame[t].staged)
    /\ writelock' = "free"
    /\ Goto(t, "isf_save")
    /\ UNCHANGED <<fs, clock, events, pending_changes, state_file,
                   running, faults, last, lock, frame>>

\* index_specific_files(): save_index_state(state), then the return
isf_save(t) ==
    /\ pc[t] = "isf_save"
    /\ state_file' = save_index_state(state_file, frame[t].state, FALSE)
    /\ Assign(t, [frame[t] EXCEPT !.saves = @ + 1])
    /\ Goto(t, IF t = "loop" THEN "clear" ELSE "return")
    /\ UNCHANGED <<fs, clock, events, pending_changes, index,
                   running, faults, last, lock, writelock>>

\* _process_loop(): self.pending_changes.clear() and the end of the `with`
loop_clear ==
    /\ pc["loop"] = "clear"
    /\ pending_changes' = {}
    /\ lock' = "free"
    /\ Goto("loop", "sleep")
    /\ Assign("loop", [Frame0 EXCEPT !.prev = "ok"])
    /\ UNCHANGED <<fs, clock, events, index, state_file,
                   running, faults, last, writelock>>

\* an exception handler that lets the thread end
loop_except_exit ==
    /\ pc["loop"] = "raised"
    /\ lock' = "free"
    /\ Goto("loop", "done")
    /\ Assign("loop", [Frame0 EXCEPT !.prev = "raised"])
    /\ UNCHANGED <<fs, clock, events, pending_changes, index, state_file,
                   running, faults, last, writelock>>

\* _process_loop(): the exception leaves the `with` (the lock is released,
\* clear() is not reached) and `except Exception` logs it
loop_except ==
    /\ pc["loop"] = "raised"
    /\ lock' = "free"
    /\ Goto("loop", "sleep")
    /\ Assign("loop", [Frame0 EXCEPT !.prev = "raised"])
    /\ UNCHANGED <<fs, clock, events, pending_changes, index, state_file,
                   running, faults, last, writelock>>

\* _process_loop(): time.sleep(3)
loop_sleep ==
    /\ pc["loop"] = "sleep"
    /\ Goto("loop", "while")
    /\ UNCHANGED <<fs, clock, events, pending_changes, index, state_file,
                   running, faults, last, lock, writelock, frame>>

\* where check_consistency() continues after the deletions
Upsert(locals) == IF locals.file_paths # {} THEN "isf_open" ELSE "return"

\* check_consistency(): the store is loaded and the vault is walked
cc_scan ==
    /\ pc["caller"] = "idle"
    /\ LET current_state == load_index_state(state_file, FALSE)
           locals == [Frame0 EXCEPT
                        !.file_paths = FilesToUpdate(fs, current_state),
                        !.deleted_paths = DeletedPaths(fs, current_state)]
       IN /\ Assign("caller", locals)
          /\ Goto("caller", IF locals.deleted_paths # {} THEN "rdf_open"
                            ELSE Upsert(locals))
    /\ UNCHANGED <<fs, clock, events, pending_changes, index, state_file,
                   running, faults, last, lock, writelock>>

\* remove_deleted_files(): open_dir() and load_index_state()
rdf_open ==
    /\ pc["caller"] = "rdf_open"
    /\ Assign("caller", [frame["caller"] EXCEPT
                           !.state = load_index_state(state_file, FALSE)])
    /\ Goto("caller", "rdf_writer")
    /\ UNCHANGED <<fs, clock, events, pending_changes, index, state_file,
                   running, faults, last, lock, writelock>>

\* remove_deleted_files(): `with idx.writer() as writer:`; LockError is
\* caught by the function's own handler, which returns
rdf_writer ==
    /\ pc["caller"] = "rdf_writer"
    /\ IF writelock = "free"
       THEN /\ writelock' = "caller"
            /\ Goto("caller", "rdf_commit")
       ELSE /\ Goto("caller", Upsert(frame["caller"]))
            /\ UNCHANGED writelock
    /\ UNCHANGED <<fs, clock, events, pending_changes, index, state_file,
                   running, faults, last, lock, frame>>

\* remove_deleted_files(): delete_by_term and state.pop for every path, then
\* the commit at the end of the `with` block
rdf_commit ==
    /\ pc["caller"] = "rdf_commit"
    /\ index' = delete_by_term(index, frame["caller"].deleted_paths)
    /\ writelock' = "free"
    /\ Assign("caller", [frame["caller"] EXCEPT
          !.state = [rel \in (DOMAIN @) \ frame["caller"].deleted_paths |->
                        @[rel]]])
    /\ Goto("caller", "rdf_save")
    /\ UNCHANGED <<fs, clock, events, pending_changes, state_file,
                   running, faults, last, lock>>

\* remove_deleted_files(): save_index_state(state)
rdf_save ==
    /\ pc["caller"] = "rdf_save"
    /\ state_file' = save_index_state(state_file, frame["caller"].state, FALSE)
    /\ Goto("caller", Upsert(frame["caller"]))
    /\ UNCHANGED <<fs, clock, events, pending_changes, index,
                   running, faults, last, lock, writelock, frame>>

\* check_consistency() returns, or the exception of index_specific_files()
\* propagates to the caller
cc_return ==
    /\ pc["caller"] \in {"return", "raised"}
    /\ Goto("caller", "idle")
    /\ Assign("caller", Frame0)
    /\ UNCHANGED <<fs, clock, events, pending_changes, index, state_file,
                   running, faults, last, lock, writelock>>

\* the observer thread takes a notification and calls the handler:
\* on_created and on_modified return for a directory, _handle_change returns
\* for a path that is not eligible, on_deleted is not overridden
dispatch(event) ==
    /\ Observing
    /\ pc["handler"] = "idle"
    /\ event \in events
    /\ events' = events \ {event}
    /\ IF /\ event.event_type \in {"created", "modified"}
          /\ on_change({}, event) # {}
       THEN /\ Goto("handler", "with")
            /\ Assign("handler", [Frame0 EXCEPT
                                    !.path = Absolute(event.src_path)])
       ELSE UNCHANGED <<pc, frame>>
    /\ UNCHANGED <<fs, clock, pending_changes, index, state_file,
                   running, faults, last, lock, writelock>>

\* _handle_change(): `with self._lock:`
handle_with ==
    /\ pc["handler"] = "with"
    /\ acquire(lock)
    /\ lock' = "handler"
    /\ Goto("handler", "add")
    /\ UNCHANGED <<fs, clock, events, pending_changes, index, state_file,
                   running, faults, last, writelock, frame>>

\* _handle_change(): self.pending_changes.add(path) and the end of the `with`
handle_add ==
    /\ pc["handler"] = "add"
    /\ pending_changes' = pending_changes \cup {frame["handler"].path}
    /\ lock' = "free"
    /\ Goto("handler", "idle")
    /\ Assign("handler", Frame0)
    /\ UNCHANGED <<fs, clock, events, index, state_file,
                   running, faults, last, writelock>>

\* VaultChangeHandler.shutdown(): self._running = False
sd_flag ==
    /\ pc["stop"] = "idle"
    /\ running' = FALSE
    /\ Goto("stop", "join")
    /\ UNCHANGED <<fs, clock, events, pending_changes, index, state_file,
                   faults, last, lock, writelock, frame>>

\* VaultChangeHandler.shutdown(): self._thread.join(timeout=5) returns when
\* the thread has ended or when the five seconds are over
sd_join(timeout) ==
    /\ pc["stop"] = "join"
    /\ timeout \/ pc["loop"] = "done"
    /\ Goto("stop", "observer")
    /\ UNCHANGED <<fs, clock, events, pending_changes, index, state_file,
                   running, faults, last, lock, writelock, frame>>

\* SearchManager.shutdown(): observer.stop() and observer.join(), which
\* waits for the handler call in progress
sd_observer ==
    /\ pc["stop"] = "observer"
    /\ pc["handler"] = "idle"
    /\ events' = {}
    /\ Goto("stop", "done")
    /\ UNCHANGED <<fs, clock, pending_changes, index, state_file,
                   running, faults, last, lock, writelock, frame>>

\* the steps of the debounce thread
Loop ==
    \/ loop_while
    \/ loop_with
    \/ \E F \in FaultSets({"isf_index"}) : isf_open("loop", F)
    \/ isf_writer("loop")
    \/ \E fp \in frame["loop"].todo : isf_file("loop", fp)
    \/ isf_commit("loop")
    \/ isf_save("loop")
    \/ loop_clear
    \/ loop_except
    \/ loop_sleep

\* the steps of the observer thread
Handler ==
    \/ \E event \in events : dispatch(event)
    \/ handle_with
    \/ handle_add

\* the steps of a thread that runs check_consistency()
Caller ==
    \/ cc_scan
    \/ rdf_open
    \/ rdf_writer
    \/ rdf_commit
    \/ rdf_save
    \/ \E F \in FaultSets({"isf_index"}) : isf_open("caller", F)
    \/ isf_writer("caller")
    \/ \E fp \in frame["caller"].todo : isf_file("caller", fp)
    \/ isf_commit("caller")
    \/ isf_save("caller")
    \/ cc_return

\* the steps of the thread that runs shutdown()
Stop ==
    \/ sd_flag
    \/ \E timeout \in BOOLEAN : sd_join(timeout)
    \/ sd_observer

\* the environment of the threads
Env ==
    \/ \E rel \in ThreadPaths : \E data \in ThreadData(rel) : EnvWrite(rel, data)
    \/ \E rel \in ThreadPaths : EnvDelete(rel)

\* the debounce thread, the handler and a caller of check_consistency()
NextThreads ==
    \/ Env
    \/ Loop
    \/ Handler
    \/ Caller

SpecThreads == Init /\ [][NextThreads]_vars

\* the debounce thread, the handler and shutdown()
NextShutdown ==
    \/ Env
    \/ Loop
    \/ Handler
    \/ Stop

SpecShutdown == Init /\ [][NextShutdown]_vars

\* every thread that can take a step eventually takes one
SpecShutdownFair ==
    /\ SpecShutdown
    /\ WF_vars(Loop)
    /\ WF_vars(Handler)
    /\ WF_vars(Stop)

(***************************************************************************)
(* The loop body of index_specific_files() call by call: read_text(), the  *)
(* stat() for the document's modified field and get_file_hash() are three  *)
(* accesses to the file, and the environment can write between them.       *)
(***************************************************************************)
\* the vault path and the contents the environment uses in these runs
RacePaths == {PlainB}

RaceData(rel) == {TextAlpha, TextBeta}

\* content = file_path.read_text(encoding='utf-8'), after the exists() and
\* is_file() tests; a missing file is skipped, a failed read is logged
isf_read(t, fp) ==
    /\ pc[t] = "isf_file"
    /\ fp \in frame[t].todo
    /\ IF ~Exists(fs, fp)
       THEN /\ Assign(t, [frame[t] EXCEPT !.todo = @ \ {fp}])
            /\ UNCHANGED pc
       ELSE IF ~ReadTextOk(FileAt(fs, fp).data)
       THEN /\ Assign(t, [frame[t] EXCEPT !.todo = @ \ {fp},
                                          !.failed = @ \cup {fp}])
            /\ UNCHANGED pc
       ELSE /\ Assign(t, [frame[t] EXCEPT
                            !.file_path = fp,
                            !.content = ReadText(FileAt(fs, fp).data)])
            /\ Goto(t, "isf_add")
    /\ UNCHANGED <<fs, clock, events, pending_changes, index, state_file,
                   running, faults, last, lock, writelock>>

\* writer.add_document(path, content, modified=...stat().st_mtime): the stat
\* raises when the file is gone, which the handler of the loop body logs
isf_add(t) ==
    /\ pc[t] = "isf_add"
    /\ LET fp == frame[t].file_path
       IN IF ~Exists(fs, fp)
          THEN /\ Assign(t, [frame[t] EXCEPT !.todo = @ \ {fp},
                                             !.failed = @ \cup {fp},
                                             !.file_path = <<>>,
                                             !.content = <<>>])
               /\ Goto(t, "isf_file")
          ELSE /\ Assign(t, [frame[t] EXCEPT
                    !.staged = @ \cup {Document(RelativeTo(fp, VaultPath),
                                                frame[t].content,
                                                FileAt(fs, fp).mtime)}])
               /\ Goto(t, "isf_hash")
    /\ UNCHANGED <<fs, clock, events, pending_changes, index, state_file,
                   running, faults, last, lock, writelock>>

\* state[rel_path] = self.get_file_hash(file_path)
isf_hash(t) ==
    /\ pc[t] = "isf_hash"
    /\ LET fp == frame[t].file_path
       IN Assign(t, [frame[t] EXCEPT !.todo = @ \ {fp},
                                     !.state = UpdatedState(fs, @, {fp}),
                                     !.file_path = <<>>,
                                     !.content = <<>>])
    /\ Goto(t, "isf_file")
    /\ UNCHANGED <<fs, clock, events, pending_changes, index, state_file,
                   running, faults, last, lock, writelock>>

\* index_specific_files() of thread t with the loop body call by call
IsfRace(t) ==
    \/ \E F \in FaultSets({"isf_index"}) : isf_open(t, F)
    \/ isf_writer(t)
    \/ \E fp \in frame[t].todo : isf_read(t, fp)
    \/ isf_add(t)
    \/ isf_hash(t)
    \/ isf_commit(t)
    \/ isf_save(t)

\* the debounce thread, the handler and a caller of check_consistency()
NextRace ==
    \/ \E rel \in RacePaths : \E data \in RaceData(rel) : EnvWrite(rel, data)
    \/ \E rel \in RacePaths : EnvDelete(rel)
    \/ loop_while
    \/ loop_with
    \/ IsfRace("loop")
    \/ loop_clear
    \/ loop_except
    \/ loop_sleep
    \/ Handler
    \/ cc_scan
    \/ rdf_open
    \/ rdf_writer
    \/ rdf_commit
    \/ rdf_save
    \/ IsfRace("caller")
    \/ cc_return

SpecRace == Init /\ [][NextRace]_vars

(***************************************************************************)
(* search() as a function of the index: the indexes are drawn from the     *)
(* documents the write path produces for the text files, with the copies   *)
(* that add_document leaves behind.                                        *)
(***************************************************************************)
SearchDocuments ==
    {Document(NotesA, ReadText(TextAlpha), 1),
     Document(NotesA, ReadText(TextBeta), 2),
     Document(PlainB, ReadText(TextBeta), 1)}

SearchIndexes ==
    {[d \in {x \in SearchDocuments : copies[x] > 0} |-> copies[d]] :
        copies \in [SearchDocuments -> 0..MaxCopies]}

InitSearch ==
    /\ lock = "free"
    /\ writelock = "free"
    /\ pc = [t \in Threads |-> IF t = "loop" THEN "while" ELSE "idle"]
    /\ frame = [t \in Threads |-> Frame0]
    /\ fs = <<>>
    /\ clock = 0
    /\ events = {}
    /\ pending_changes = {}
    /\ index \in SearchIndexes
    /\ state_file = EmptyState
    /\ running = TRUE
    /\ faults = 0
    /\ last = Outcome("init")

NextSearch ==
    \/ \E query \in Tokens, limit \in (-1)..MaxLimit : api_search(query, limit, {}, 0)
    \/ \E query \in Tokens, limit \in (-1)..MaxLimit, fail_at \in 0..MaxLimit :
          /\ faults < MaxFaults
          /\ api_search(query, limit, {"search"}, fail_at)

SpecSearch == InitSearch /\ [][NextSearch]_vars

(***************************************************************************)
(* Properties.                                                             *)
(***************************************************************************)
\* the result lists search(query) can hand back for an index
SearchResults(idx, query) ==
    {search(ranking, query, DefaultLimit, FALSE, 0).results :
        ranking \in Rankings(Matching(idx, query), query)}

\* every search for the query returns a result with the path
SearchReturns(idx, query, path) ==
    \A results \in SearchResults(idx, query) :
        \E i \in DOMAIN results : results[i].path = path

\* some search for the query returns a result with the path
SearchMayReturn(idx, query, path) ==
    \E results \in SearchResults(idx, query) :
        \E i \in DOMAIN results : results[i].path = path

\* the words of a file's content, as the extractor of its kind yields them
ContentTokens(files, rel) ==
    {w \in Tokens :
        \E i \in DOMAIN index_file_content(rel, files[rel].data) :
            index_file_content(rel, files[rel].data)[i] = w}

\* the words that occur in the content of this file and of no other file
UniqueTokens(files, rel) ==
    {w \in ContentTokens(files, rel) :
        \A other \in (DOMAIN files) \ {rel} : w \notin ContentTokens(files, other)}

\* the paths the last operation handed to index_specific_files
Attempted == last.batch \cup last.files_to_update

\* the last operation ran an indexing batch to completion with no failure
BatchCompleted ==
    /\ last.op \in {"tick", "reindex"}
    /\ ~last.raised
    /\ last.failed = {}

\* the number of documents of the index with the path
DocumentsAt(idx, path) ==
    BagCardinality([d \in {x \in DOMAIN idx : x.path = path} |-> idx[d]])

\* C1: after a debounce tick has completed for an eligible file that exists
\* (.md, .txt or .pdf), a search for a word unique to the file's content
\* returns a result with the file's relative path.
C1_AddedFileSearchable ==
    (last.op = "tick" /\ ~last.raised) =>
        \A fp \in last.batch :
            (Exists(fs, fp) /\ Eligible(RelativeTo(fp, VaultPath))) =>
                \A w \in UniqueTokens(fs, RelativeTo(fp, VaultPath)) :
                    SearchReturns(index, w, RelativeTo(fp, VaultPath))

\* C2: after a debounce tick or a reconciliation has written a file, every
\* word of the file's new content finds the file's path and no word that is
\* absent from the new content (a word of the old content only) finds it.
C2_ModifiedFileReindexed ==
    BatchCompleted =>
        \A rel \in last.added :
            /\ \A w \in ContentTokens(fs, rel) : SearchReturns(index, w, rel)
            /\ \A w \in Tokens \ ContentTokens(fs, rel) :
                  ~SearchMayReturn(index, w, rel)

\* C3: after check_consistency() has returned, no path whose file is deleted
\* is a key of the Fingerprint Store and no search returns a result with it.
C3_DeletedFileRemoved ==
    (last.op = "reindex" /\ ~last.raised /\ last.failed = {}) =>
        \A rel \in AllPaths \ DOMAIN fs :
            /\ rel \notin DOMAIN state_file
            /\ \A w \in Tokens : ~SearchMayReturn(index, w, rel)

\* C4: after check_consistency() has run to completion, a second run with no
\* filesystem change computes no file to update and no path to delete, and
\* changes neither the index nor the Fingerprint Store.
C4_ReconcileIdempotent ==
    (last.op = "reindex" /\ ~last.raised /\ last.failed = {}) =>
        LET second == check_consistency(fs, index, state_file, {})
        IN /\ second.files_to_update = {}
           /\ second.deleted_paths = {}
           /\ second.added = {}
           /\ second.index = index
           /\ second.state_file = state_file

\* a path the core must not see: a dot name, a dot directory above it, or an
\* extension outside the whitelist
Invisible(rel) ==
    \/ NameStartsWithDot(rel)
    \/ UnderDotDirectory(rel)
    \/ SuffixLower(rel) \notin {".md", ".txt", ".pdf"}

\* C5: no document of the index and no path of the pending set refers to a
\* dot file, to a file under a dot directory or to a file whose extension is
\* not .md, .txt or .pdf.
C5_InvisibleNeverIndexed ==
    /\ \A d \in DOMAIN index : ~Invisible(d.path)
    /\ \A fp \in pending_changes : ~Invisible(RelativeTo(fp, VaultPath))

\* C6: between operations, a relative path is a key of the Fingerprint Store
\* if and only if the index holds a document with that path.
C6_StoreIndexLockstep ==
    DOMAIN state_file = {d.path : d \in DOMAIN index}

\* C7: the index holds at most one document per relative path (stated for
\* the runs in which no environment failure has occurred; a run with failures
\* is covered by the claim as well).
C7_OneDocumentPerPath ==
    faults = 0 => \A rel \in AllPaths : DocumentsAt(index, rel) <= 1

\* C8: after an indexing batch has completed, every .pdf file of the batch
\* that exists has a document whose content is the extractor's text (the
\* empty text when extraction fails) and its fingerprint is in the store.
C8_PdfIndexedWithExtractedText ==
    BatchCompleted =>
        \A fp \in Attempted :
            (Exists(fs, fp) /\ SuffixLower(fp) = ".pdf") =>
                LET rel == RelativeTo(fp, VaultPath)
                IN /\ Document(rel, extract_pdf_text(fs[rel].data), fs[rel].mtime)
                        \in DOMAIN index
                   /\ rel \in DOMAIN state_file
                   /\ state_file[rel] = get_file_hash(fs, fp)

\* C9: when applying the deletions or the upserts of check_consistency()
\* fails, check_consistency() raises and the reindex endpoint answers 500.
C9_ReconcileFailurePropagates ==
    (/\ last.op = "reindex"
     /\ \/ "rdf_index" \in last.failed /\ last.deleted_paths # {}
        \/ "isf_index" \in last.failed /\ last.files_to_update # {})
    => (last.raised /\ last.response = "500")

\* the scores of a result list never increase
NonIncreasing(results) ==
    \A i \in 1..(Len(results) - 1) : results[i].score >= results[i + 1].score

\* C10: search(query, N) returns at most N results in non-increasing order of
\* score; when a failure occurs it raises and hands back no result list.
C10_SearchBoundedAndRanked ==
    last.op = "search" =>
        /\ ~last.raised =>
              /\ Len(last.results) <= last.limit
              /\ NonIncreasing(last.results)
        /\ last.failed # {} =>
              /\ last.raised
              /\ last.results = <<>>
              /\ last.response = "500"

\* a search that cut a longer ranking down to its limit, best score first
C10_Witness ==
    /\ last.op = "search"
    /\ ~last.raised
    /\ last.limit = 2
    /\ Len(last.results) = 2
    /\ BagCardinality(Matching(index, last.query)) > 2
    /\ last.results[1].score > last.results[2].score

\* C16: after a debounce tick whose indexing batch raised, no path of that
\* batch is left in the pending set (so no later tick attempts it again
\* without a new watcher event).
C16_FailedBatchNotRetried ==
    (last.op = "tick" /\ last.raised) => last.batch \cap pending_changes = {}

\* the documents of a path and its store entry are the same before and after
SameDocumentAndEntry(rel) ==
    /\ \A d \in (DOMAIN index) \cup (DOMAIN index') :
          d.path = rel => /\ d \in DOMAIN index /\ d \in DOMAIN index'
                          /\ index'[d] = index[d]
    /\ (rel \in DOMAIN state_file) = (rel \in DOMAIN state_file')
    /\ rel \in DOMAIN state_file => state_file'[rel] = state_file[rel]

\* C17: a deleted notification and a directory notification leave the pending
\* set, the index and the store unchanged; a debounce batch leaves the
\* documents and the store entry of a path whose file no longer exists
\* unchanged; only check_consistency() takes documents out of the index.
C17_DeletedOnlyByReconciliation ==
    [][/\ last'.op = "on_deleted" =>
            UNCHANGED <<pending_changes, index, state_file>>
       /\ (\E e \in events \ events' : e.is_directory) =>
            UNCHANGED <<pending_changes, index, state_file>>
       /\ last'.op = "tick" =>
            \A fp \in last'.batch :
                ~Exists(fs, fp) => SameDocumentAndEntry(RelativeTo(fp, VaultPath))
       /\ last'.op # "reindex" =>
            \A d \in DOMAIN index : d \in DOMAIN index' /\ index'[d] >= index[d]
      ]_vars

\* the index holds a document whose fingerprint is not in the store
Divergent == \E d \in DOMAIN index : d.path \notin DOMAIN state_file

\* C18: when documents are in the index without a store entry (their batch's
\* save failed) and each path has one document, a check_consistency() that
\* completes with no failure leaves lockstep, one document per path and no
\* document without a backing file.
C18_DivergenceRecovered ==
    [][(/\ Divergent
        /\ \A rel \in AllPaths : DocumentsAt(index, rel) <= 1
        /\ last'.op = "reindex" /\ ~last'.raised /\ last'.failed = {})
       => /\ DOMAIN state_file' = {d.path : d \in DOMAIN index'}
          /\ \A rel \in AllPaths : DocumentsAt(index', rel) <= 1
          /\ \A d \in DOMAIN index' : d.path \in DOMAIN fs'
      ]_vars

\* the Fingerprint Store as check_consistency() read it at its start
StoreRead == load_index_state(state_file, "cc_load" \in last'.failed)

\* C19: check_consistency() computes the upsert set as the whitelisted,
\* non-dot-named files that are absent from the store it read or stored there
\* with another fingerprint, and the delete set as the keys of that store with
\* no file; the deletions are applied before the upserts, so they are in
\* effect also when the upsert step raises.
C19_ReconcileSets ==
    [][last'.op = "reindex" =>
         /\ last'.files_to_update =
               {VaultPath \o rel : rel \in
                  {r \in DOMAIN fs :
                     /\ SuffixLower(r) \in {".md", ".txt", ".pdf"}
                     /\ ~NameStartsWithDot(r)
                     /\ \/ r \notin DOMAIN StoreRead
                        \/ StoreRead[r] # <<fs[r].mtime, Size(fs[r].data)>>}}
         /\ last'.deleted_paths = (DOMAIN StoreRead) \ (DOMAIN fs)
         /\ (last'.raised /\ last'.failed = {"isf_index"}) =>
               \A rel \in last'.deleted_paths :
                  /\ rel \notin DOMAIN state_file'
                  /\ DocumentsAt(index', rel) = 0
      ]_vars

\* a reconciliation that had both deletions and upserts and whose upsert
\* step raised
C19_Witness ==
    /\ last.op = "reindex"
    /\ last.raised
    /\ last.deleted_paths # {}
    /\ last.files_to_update # {}

\* the debounce thread is inside the index_specific_files() call of a tick
InBatch == pc["loop"] \in IsfLabels \cup {"raised"}

\* C11: the pending-set lock is never held by the debounce loop while its
\* indexing batch is running (the batch runs on a snapshot outside the lock).
C11_BatchOutsideLock == InBatch => lock # "loop"

\* C12: no queued change is lost: a path leaves the pending set only in the
\* clear that follows the return of the index_specific_files() call it was
\* handed to; from the call to the clear the pending set is the set that was
\* handed over; an addition by the handler and the drain-and-clear of the
\* loop are never in progress together.
C12_NoQueuedChangeLost ==
    /\ [][\A fp \in pending_changes \ pending_changes' :
             /\ pc["loop"] = "clear"
             /\ frame["loop"].saves = 1
             /\ fp \in frame["loop"].file_paths]_vars
    /\ []((InBatch \/ pc["loop"] = "clear") =>
             /\ frame["loop"].file_paths = pending_changes
             /\ pc["handler"] # "add")

\* the loop is about to clear the set of a finished batch while a callback
\* waits at the lock with another path
C12_Witness ==
    /\ pc["loop"] = "clear"
    /\ pc["handler"] = "with"
    /\ frame["handler"].path \notin pending_changes

\* thread t has loaded the Fingerprint Store and has not yet saved it
BetweenLoadAndSave(t) ==
    pc[t] \in {"isf_writer", "isf_file", "isf_save",
               "rdf_writer", "rdf_commit", "rdf_save"}

\* C13: a batch of the debounce loop is never between its load and its save
\* of the Fingerprint Store while a check_consistency() of a caller thread is
\* between a load and a save of its own, and no save of index_specific_files()
\* removes a store entry that another batch has saved.
C13_OneBatchInFlight ==
    /\ [][\A t \in {"loop", "caller"} :
             (pc[t] = "isf_save" /\ pc'[t] # "isf_save") =>
                 DOMAIN state_file \subseteq DOMAIN state_file']_vars
    /\ [](~(BetweenLoadAndSave("loop") /\ BetweenLoadAndSave("caller")))

\* thread t attempts path fp in this step of its batch
Attempts(t, fp) ==
    /\ pc[t] = "isf_file"
    /\ fp \in frame[t].todo
    /\ frame'[t].todo = frame[t].todo \ {fp}

QueuedPaths == {VaultPath \o rel : rel \in ThreadPaths}

C20_OrderedShutdown ==
    /\ [][pc'["stop"] # pc["stop"] =>
            \/ pc["stop"] = "idle" /\ pc'["stop"] = "join"
                                   /\ running /\ ~running' /\ Observing'
            \/ pc["stop"] = "join" /\ pc'["stop"] = "observer"
                                   /\ ~running' /\ Observing'
            \/ pc["stop"] = "observer" /\ pc'["stop"] = "done"
                                       /\ ~running' /\ events' = {}]_vars
    /\ [][/\ (pc["loop"] = "while" /\ pc'["loop"] = "with") => running
          /\ (pc["loop"] # "isf_open" /\ pc'["loop"] = "isf_open")
                => pc["loop"] = "with"
          /\ pc["loop"] = "done" => pc'["loop"] = "done"]_vars
    /\ ~running ~> pc["loop"] = "done"
    /\ pc["stop"] = "join" ~> pc["stop"] = "done"

\* shutdown() has completed and the debounce thread has ended, with a path
\* still pending
C20_Witness ==
    /\ pc["stop"] = "done"
    /\ pc["loop"] = "done"
    /\ pending_changes # {}

\* neither the debounce loop nor a caller is inside a batch
NoBatchInFlight ==
    /\ pc["loop"] \in {"while", "with", "sleep", "done"}
    /\ pc["caller"] = "idle"

\* the store entry of a path equals the fingerprint of the file as it is now
FingerprintCurrent(rel) ==
    /\ rel \in DOMAIN fs
    /\ state_file[rel] = get_file_hash(fs, VaultPath \o rel)

\* C21: in every state with an empty pending set and no batch in flight, a
\* path whose store entry equals the file's current fingerprint has a document
\* in the index with the file's current content.
C21_FingerprintDescribesIndexedContent ==
    (pending_changes = {} /\ NoBatchInFlight) =>
        \A rel \in DOMAIN state_file :
            FingerprintCurrent(rel) =>
                \E d \in DOMAIN index :
                    /\ d.path = rel
                    /\ d.content = ReadText(fs[rel].data)

====
